---- MODULE Spec2Model ----
(***************************************************************************)
(* Model of the bpmn-collab backend: the shared BpmnState (document,       *)
(* session registry, lock table), the ConnectionManager broadcast hub and  *)
(* the per-connection websocket handler.                                   *)
(*                                                                         *)
(* Conventions.  Element ids are strings; session ids (the 8 hex digits    *)
(* of a uuid4) are the integers 1..n, taken to be distinct per connection; *)
(* None stands for Python's None (what msg.get returns for an absent key). *)
(* A dict is a function whose DOMAIN is the set of its keys.               *)
(***************************************************************************)
EXTENDS Integers, Sequences, FiniteSets, TLC

\* ---------------------------------------------------------------- bounds
MaxUsers == 2

NumTasks == 4

MaxMsgs == 2

MaxDown == 1

NumChans == 3

MaxCalls == 1

\* ------------------------------------------------------------ value sets
Canvas == "canvas"

NoElement == "None"

None == 0

Elements == {Canvas, "Task_1", "Task_2"}

ProtoElements == {Canvas, "Task_1"}

UserIds == 1..MaxUsers

Xmls == {"xml_0", "xml_a", "xml_b"}

XmlOf(ws) == IF ws % 2 = 1 THEN "xml_a" ELSE "xml_b"

initial_xml == "xml_0"

EmptyDict == [k \in {} |-> None]

\* ------------------------------------------------------------- variables
VARIABLES
    xml,                \* BpmnState.xml
    users,              \* BpmnState.users : user_id -> info
    locks,              \* BpmnState.locks : element_id -> user_id
    last,               \* the last direct call on BpmnState and its result
    mutex,              \* BpmnState._lock : None or the task holding it
    tpc,                \* gather: position of each task in acquire_lock
    tres,               \* gather: value returned by each finished task
    active_connections, \* ConnectionManager.active_connections (a list)
    pc,                 \* where each websocket_endpoint instance is suspended
    bq,                 \* broadcast: the connections still to be sent to
    bmsg,               \* broadcast: the message being sent
    cont,               \* what the handler does when its broadcast returns
    inbox,              \* the messages delivered to each client, in order
    open,               \* whether each transport is up
    nmsgs,              \* number of inbound messages received so far
    joined              \* hub test: active_connections as the broadcast was called

stateVars == <<xml, users, locks>>

gatherVars == <<mutex, tpc, tres>>

hubVars == <<active_connections, pc, bq, bmsg, cont, inbox, open, nmsgs, joined>>

vars == <<xml, users, locks, last, mutex, tpc, tres,
          active_connections, pc, bq, bmsg, cont, inbox, open, nmsgs, joined>>

\* ------------------------------------------------------- dict operations
DictPut(d, k, v) == [x \in DOMAIN d \cup {k} |-> IF x = k THEN v ELSE d[x]]

DictDel(d, ks) == [x \in DOMAIN d \ ks |-> d[x]]

DictGet(d, k) == IF k \in DOMAIN d THEN d[k] ELSE None

\* ------------------------------------------------- BpmnState (pure part)
\* Each operator is the body of the method inside `async with self._lock`.

\* Variant: the payload is dropped and the default document stored.
set_xml_default(x) == initial_xml

set_xml(x) == x

get_xml(doc) == doc

\* Variant: the session is not recorded.
set_user_skipped(us, user_id) == us

set_user(us, user_id) == DictPut(us, user_id, [id |-> user_id])

remove_user_keeps_locks(lk, user_id) == lk

remove_user_keep_first(lk, user_id) ==
    LET to_remove == {eid \in DOMAIN lk : lk[eid] = user_id}
    IN  IF to_remove = {} THEN lk
        ELSE DictDel(lk, {CHOOSE eid \in to_remove : TRUE})

remove_user_locks(lk, user_id) ==
    LET to_remove == {eid \in DOMAIN lk : lk[eid] = user_id}
    IN  DictDel(lk, to_remove)

remove_user_users(us, user_id) == DictDel(us, {user_id})

acquire_lock_reserved(lk, element_id, user_id) ==
    IF element_id = Canvas \/ element_id \in DOMAIN lk
    THEN [ok |-> FALSE, locks |-> lk]
    ELSE [ok |-> TRUE, locks |-> DictPut(lk, element_id, user_id)]

acquire_lock_idempotent(lk, element_id, user_id) ==
    IF element_id \in DOMAIN lk
    THEN [ok |-> lk[element_id] = user_id, locks |-> lk]
    ELSE [ok |-> TRUE, locks |-> DictPut(lk, element_id, user_id)]

acquire_lock_overwrite(lk, element_id, user_id) ==
    [ok |-> TRUE, locks |-> DictPut(lk, element_id, user_id)]

acquire_lock(lk, element_id, user_id) ==
    IF element_id \in DOMAIN lk
    THEN [ok |-> FALSE, locks |-> lk]
    ELSE [ok |-> TRUE, locks |-> DictPut(lk, element_id, user_id)]

\* raises: `del self.locks[element_id]` on a missing key (KeyError), which the
\* comparison lets through only when user_id is None and the element is free.
release_lock_any_owner(lk, element_id, user_id) ==
    IF element_id \in DOMAIN lk
    THEN [ok |-> TRUE, locks |-> DictDel(lk, {element_id}), raises |-> FALSE]
    ELSE [ok |-> FALSE, locks |-> lk, raises |-> FALSE]

release_lock(lk, element_id, user_id) ==
    IF DictGet(lk, element_id) = user_id
    THEN [ok |-> TRUE, locks |-> DictDel(lk, {element_id}),
          raises |-> element_id \notin DOMAIN lk]
    ELSE [ok |-> FALSE, locks |-> lk, raises |-> FALSE]

\* ------------------------------------------------------------- messages
Conns == 1..MaxUsers

Chans == 1..NumChans

AllChans == Conns \cup Chans

\* user_id = str(uuid.uuid4())[:8]: one fresh id per connection.
uuid4(ws) == ws

OutMsg(t, x, u, e, lk, us, by) ==
    [type |-> t, xml |-> x, user_id |-> u, element_id |-> e, locks |-> lk,
     users |-> us, by |-> by]

NoMsg == OutMsg("none", "", None, NoElement, EmptyDict, {}, None)

InitMsg(x, u, us, lk) == OutMsg("init", x, u, NoElement, lk, DOMAIN us, None)

UserJoin(u) == OutMsg("user_join", "", u, NoElement, EmptyDict, {}, None)

UserLeave(u) == OutMsg("user_leave", "", u, NoElement, EmptyDict, {}, None)

XmlUpdate(x, by) == OutMsg("xml_update", x, None, NoElement, EmptyDict, {}, by)

LockReply(t, e, u) == OutMsg(t, "", u, e, EmptyDict, {}, None)

LocksUpdate(lk) == OutMsg("locks_update", "", None, NoElement, lk, {}, None)

\* What a client may send: msg.get(k) of an absent key is None (NoElement
\* for element_id), msg[k] of an absent key raises KeyError.
InMsg(t, e, u, x) == [type |-> t, element_id |-> e, user_id |-> u, xml |-> x]

\* The user_id a client puts in a message: its own, or another session's.
Declared(ws) == {uuid4(ws), (uuid4(ws) % MaxUsers) + 1}

\* Well-formed traffic.
ClientMsgs(ws) ==
    {InMsg("update_xml", NoElement, uuid4(ws), XmlOf(ws))}
    \cup {InMsg(t, Canvas, uuid4(ws), "") : t \in {"acquire_lock", "release_lock"}}
    \cup {InMsg(t, "Task_1", u, "") : t \in {"acquire_lock", "release_lock"},
                                     u \in Declared(ws)}

\* Traffic with unknown kinds and absent fields, next to plain lock requests.
MalformedMsgs(ws) ==
    {InMsg(t, "Task_1", uuid4(ws), "") : t \in {"acquire_lock", "release_lock"}}
    \cup {InMsg(t, NoElement, uuid4(ws), "") : t \in {"acquire_lock", "release_lock"}}
    \cup {InMsg(t, e, None, "") : t \in {"acquire_lock", "release_lock"},
                                 e \in ProtoElements}
    \cup {InMsg("ping", NoElement, None, "")}

\* ---------------------------------------------------- ConnectionManager
connect(ac, ws) == Append(ac, ws)

disconnect(ac, ws) == SelectSeq(ac, LAMBDA c : c # ws)

\* conn.send_text(data): delivered when the transport is up, an exception
\* otherwise.
send_text(ib, op, ws, m) ==
    IF op[ws] THEN [ib EXCEPT ![ws] = Append(@, m)] ELSE ib

\* One turn of the loop of broadcast over the copied list q: the send to its
\* head inside try/except Exception: pass, the rest still to do.
deliver_abort(q, m, ib, op) ==
    IF op[Head(q)]
    THEN [rest |-> Tail(q), inbox |-> send_text(ib, op, Head(q), m)]
    ELSE [rest |-> <<>>, inbox |-> ib]

deliver(q, m, ib, op) ==
    [rest |-> Tail(q), inbox |-> send_text(ib, op, Head(q), m)]

\* The state of a handler between two awaits.
Handler(p, q, m, k, ib) == [pc |-> p, bq |-> q, bmsg |-> m, cont |-> k, inbox |-> ib]

RECURSIVE after_broadcast(_, _, _, _, _)
RECURSIVE broadcast(_, _, _, _, _, _)

\* The code that follows a broadcast call, up to the next await.
after_broadcast(k, ac, lk, ib, op) ==
    CASE k = "recv" -> Handler("recv", <<>>, NoMsg, "none", ib)
      [] k = "returned" -> Handler("returned", <<>>, NoMsg, "none", ib)
      [] k = "closed" -> Handler("closed", <<>>, NoMsg, "none", ib)
      [] k = "locks_recv" -> broadcast(LocksUpdate(lk), "recv", ac, lk, ib, op)
      [] k = "locks_closed" -> broadcast(LocksUpdate(lk), "closed", ac, lk, ib, op)

\* broadcast(message): data is encoded and the list copied at the call; the
\* first send is made, and the handler is suspended in it.  An empty list
\* makes the call return at once.
broadcast(m, k, ac, lk, ib, op) ==
    IF ac = <<>>
    THEN after_broadcast(k, ac, lk, ib, op)
    ELSE LET d == deliver(ac, m, ib, op)
         IN  Handler("bcast", d.rest, m, k, d.inbox)

InitHub ==
    /\ active_connections = <<>>
    /\ pc = [c \in Conns |-> "new"]
    /\ bq = [c \in Conns |-> <<>>]
    /\ bmsg = [c \in Conns |-> NoMsg]
    /\ cont = [c \in Conns |-> "none"]
    /\ inbox = [c \in AllChans |-> <<>>]
    /\ open = [c \in AllChans |-> FALSE]
    /\ nmsgs = 0
    /\ joined = <<>>

\* ------------------------------------------- direct calls on a BpmnState
\* The unit-test view: any caller invokes the methods one after another.

NoCall == [op |-> "none", element_id |-> NoElement, user_id |-> None,
           xml |-> initial_xml, ok |-> FALSE]

Call(op, e, u, x, r) ==
    [op |-> op, element_id |-> e, user_id |-> u, xml |-> x, ok |-> r]

InitState ==
    /\ xml = initial_xml
    /\ users = EmptyDict
    /\ locks = EmptyDict

InitGather ==
    /\ mutex = None
    /\ tpc = [t \in 1..NumTasks |-> "start"]
    /\ tres = [t \in 1..NumTasks |-> FALSE]

CallSetXml(x) ==
    /\ xml' = set_xml(x)
    /\ last' = Call("set_xml", NoElement, None, x, TRUE)
    /\ UNCHANGED <<users, locks, gatherVars, hubVars>>

CallGetXml ==
    /\ last' = Call("get_xml", NoElement, None, get_xml(xml), TRUE)
    /\ UNCHANGED <<stateVars, gatherVars, hubVars>>

CallSetUser(u) ==
    /\ users' = set_user(users, u)
    /\ last' = Call("set_user", NoElement, u, initial_xml, TRUE)
    /\ UNCHANGED <<xml, locks, gatherVars, hubVars>>

CallRemoveUser(u) ==
    /\ users' = remove_user_users(users, u)
    /\ locks' = remove_user_locks(locks, u)
    /\ last' = Call("remove_user", NoElement, u, initial_xml, TRUE)
    /\ UNCHANGED <<xml, gatherVars, hubVars>>

CallAcquireLock(e, u) ==
    LET r == acquire_lock(locks, e, u)
    IN  /\ locks' = r.locks
        /\ last' = Call("acquire_lock", e, u, initial_xml, r.ok)
        /\ UNCHANGED <<xml, users, gatherVars, hubVars>>

CallReleaseLock(e, u) ==
    LET r == release_lock(locks, e, u)
    IN  /\ locks' = r.locks
        /\ ~r.raises
        /\ last' = Call("release_lock", e, u, initial_xml, r.ok)
        /\ UNCHANGED <<xml, users, gatherVars, hubVars>>

InitApi == InitState /\ InitGather /\ InitHub /\ last = NoCall

NextApi ==
    \/ \E x \in Xmls : CallSetXml(x)
    \/ CallGetXml
    \/ \E u \in UserIds : CallSetUser(u)
    \/ \E u \in UserIds : CallRemoveUser(u)
    \/ \E e \in Elements, u \in UserIds : CallAcquireLock(e, u)
    \/ \E e \in Elements, u \in UserIds : CallReleaseLock(e, u)

SpecApi == InitApi /\ [][NextApi]_vars

\* ------------------------------------------------ asyncio.gather of acquires
\* test_concurrent_lock_acquisition: NumTasks tasks, task t calling
\* acquire_lock(GatherElement, t).  `async with self._lock` is entered when
\* the lock is free, the body runs without an await, the lock is released on
\* the way out.

GatherElement == "Task_1"

Tasks == 1..NumTasks

TaskEnter(t) ==
    /\ tpc[t] = "start"
    /\ mutex = None
    /\ mutex' = t
    /\ tpc' = [tpc EXCEPT ![t] = "locked"]
    /\ UNCHANGED <<stateVars, last, tres, hubVars>>

TaskBody(t) ==
    /\ tpc[t] = "locked"
    /\ LET r == acquire_lock(locks, GatherElement, t)
       IN  /\ locks' = r.locks
           /\ tres' = [tres EXCEPT ![t] = r.ok]
    /\ tpc' = [tpc EXCEPT ![t] = "exit"]
    /\ UNCHANGED <<xml, users, last, mutex, hubVars>>

TaskExit(t) ==
    /\ tpc[t] = "exit"
    /\ mutex' = None
    /\ tpc' = [tpc EXCEPT ![t] = "done"]
    /\ UNCHANGED <<stateVars, last, tres, hubVars>>

NextGather ==
    \/ \E t \in Tasks : TaskEnter(t)
    \/ \E t \in Tasks : TaskBody(t)
    \/ \E t \in Tasks : TaskExit(t)

SpecGather == InitApi /\ [][NextGather]_vars

\* --------------------------------------------------- websocket_endpoint
\* One handler per connection.  A handler runs from one await to the next
\* without interruption ("joined" is the one position inside a turn that the
\* model keeps); it is suspended in ws.accept ("new"), in the send
\* of init ("init_sent"), in a send of a broadcast ("bcast"), in the send of
\* a private answer ("answered") or in ws.receive_text ("recv").  It ends by
\* returning ("closed") or by an exception no except clause takes
\* ("crashed").

Dispatched(x, lk, raise, h) == [xml |-> x, locks |-> lk, raise |-> raise, h |-> h]

\* Variant: the answer goes out on every open channel.
private_send_all(ws, m, x, lk, ib, op) ==
    IF op[ws]
    THEN Dispatched(x, lk, "none",
                    Handler("answered", <<>>, NoMsg, "none",
                            [c \in DOMAIN ib |->
                                IF op[c] THEN Append(ib[c], m) ELSE ib[c]]))
    ELSE Dispatched(x, lk, "send", Handler("recv", <<>>, NoMsg, "none", ib))

\* await ws.send_text(...) to the requester alone.
private_send(ws, m, x, lk, ib, op) ==
    IF op[ws]
    THEN Dispatched(x, lk, "none",
                    Handler("answered", <<>>, NoMsg, "none", send_text(ib, op, ws, m)))
    ELSE Dispatched(x, lk, "send", Handler("recv", <<>>, NoMsg, "none", ib))

KeyError(x, lk, ib) ==
    Dispatched(x, lk, "KeyError", Handler("recv", <<>>, NoMsg, "none", ib))

update_xml(ws, m, x, lk, ac, ib, op) ==
    LET new == set_xml(m.xml)
    IN  Dispatched(new, lk, "none",
                   broadcast(XmlUpdate(new, m.user_id), "recv", ac, lk, ib, op))

on_acquire_lock_unguarded(ws, m, x, lk, ac, ib, op) ==
    IF m.element_id = NoElement \/ m.user_id = None
    THEN KeyError(x, lk, ib)
    ELSE LET r == acquire_lock(lk, m.element_id, m.user_id)
         IN  private_send(ws,
                 LockReply(IF r.ok THEN "lock_acquired" ELSE "lock_denied",
                           m.element_id, m.user_id),
                 x, r.locks, ib, op)

on_acquire_lock(ws, m, x, lk, ac, ib, op) ==
    IF m.element_id = Canvas
    THEN private_send(ws, LockReply("lock_denied", m.element_id, m.user_id),
                      x, lk, ib, op)
    ELSE IF m.element_id = NoElement \/ m.user_id = None
    THEN KeyError(x, lk, ib)
    ELSE LET r == acquire_lock(lk, m.element_id, m.user_id)
         IN  private_send(ws,
                 LockReply(IF r.ok THEN "lock_acquired" ELSE "lock_denied",
                           m.element_id, m.user_id),
                 x, r.locks, ib, op)

\* Variant: the snapshot follows a failed release too.
on_release_lock_always_update(ws, m, x, lk, ac, ib, op) ==
    IF m.element_id = Canvas
    THEN Dispatched(x, lk, "none",
             broadcast(LockReply("lock_release_failed", m.element_id, m.user_id),
                       "recv", ac, lk, ib, op))
    ELSE IF m.element_id = NoElement \/ m.user_id = None
    THEN KeyError(x, lk, ib)
    ELSE LET r == release_lock(lk, m.element_id, m.user_id)
         IN  IF r.raises
             THEN KeyError(x, lk, ib)
             ELSE Dispatched(x, r.locks, "none",
                      broadcast(
                          LockReply(IF r.ok THEN "lock_released"
                                            ELSE "lock_release_failed",
                                    m.element_id, m.user_id),
                          "locks_recv",
                          ac, r.locks, ib, op))

on_release_lock(ws, m, x, lk, ac, ib, op) ==
    IF m.element_id = Canvas
    THEN Dispatched(x, lk, "none",
             broadcast(LockReply("lock_release_failed", m.element_id, m.user_id),
                       "recv", ac, lk, ib, op))
    ELSE IF m.element_id = NoElement \/ m.user_id = None
    THEN KeyError(x, lk, ib)
    ELSE LET r == release_lock(lk, m.element_id, m.user_id)
         IN  IF r.raises
             THEN KeyError(x, lk, ib)
             ELSE Dispatched(x, r.locks, "none",
                      broadcast(
                          LockReply(IF r.ok THEN "lock_released"
                                            ELSE "lock_release_failed",
                                    m.element_id, m.user_id),
                          IF r.ok THEN "locks_recv" ELSE "recv",
                          ac, r.locks, ib, op))

\* The body of the receive loop for one message, up to its first await.
dispatch(ws, m, x, lk, ac, ib, op) ==
    CASE m.type = "update_xml" -> update_xml(ws, m, x, lk, ac, ib, op)
      [] m.type = "acquire_lock" -> on_acquire_lock(ws, m, x, lk, ac, ib, op)
      [] m.type = "release_lock" -> on_release_lock(ws, m, x, lk, ac, ib, op)
      [] OTHER -> Dispatched(x, lk, "none",
                             Handler("recv", <<>>, NoMsg, "none", ib))

SetHandler(ws, h) ==
    /\ pc' = [pc EXCEPT ![ws] = h.pc]
    /\ bq' = [bq EXCEPT ![ws] = h.bq]
    /\ bmsg' = [bmsg EXCEPT ![ws] = h.bmsg]
    /\ cont' = [cont EXCEPT ![ws] = h.cont]
    /\ inbox' = h.inbox

\* An exception leaves websocket_endpoint: nothing is cleaned up, and the
\* server closes the transport.
Crash(ws, lk) ==
    /\ SetHandler(ws, Handler("crashed", <<>>, NoMsg, "none", inbox))
    /\ open' = [open EXCEPT ![ws] = FALSE]
    /\ locks' = lk
    /\ UNCHANGED <<xml, users, active_connections>>

\* Variant: the except clause goes straight to locks_update.
Cascade_no_leave(ws, lk) ==
    LET ac == disconnect(active_connections, ws)
        op == [open EXCEPT ![ws] = FALSE]
        after == remove_user_locks(lk, uuid4(ws))
    IN  /\ active_connections' = ac
        /\ users' = remove_user_users(users, uuid4(ws))
        /\ locks' = after
        /\ open' = op
        /\ SetHandler(ws, broadcast(LocksUpdate(after), "closed",
                                    ac, after, inbox, op))
        /\ UNCHANGED xml

\* except WebSocketDisconnect: leave the hub, remove the user and its locks,
\* broadcast user_leave, then locks_update.
Cascade(ws, lk) ==
    LET ac == disconnect(active_connections, ws)
        op == [open EXCEPT ![ws] = FALSE]
        after == remove_user_locks(lk, uuid4(ws))
    IN  /\ active_connections' = ac
        /\ users' = remove_user_users(users, uuid4(ws))
        /\ locks' = after
        /\ open' = op
        /\ SetHandler(ws, broadcast(UserLeave(uuid4(ws)), "locks_closed",
                                    ac, after, inbox, op))
        /\ UNCHANGED xml

\* The transports that went down; at most MaxDown of them do.
Down == Cardinality({c \in Conns : pc[c] # "new" /\ ~open[c]})

\* No handler is in the middle of a turn.  A handler runs until it awaits:
\* the event loop gives no other handler, and no event, a step in between.
Quiet == \A c \in Conns : pc[c] # "joined"

\* await manager.connect(ws): accept returns and the websocket is appended
\* to active_connections.  alive = FALSE: the client is gone by the time
\* init is sent.
Connect(ws, alive) ==
    /\ Quiet
    /\ pc[ws] = "new"
    /\ ~alive => Down < MaxDown
    /\ active_connections' = connect(active_connections, ws)
    /\ open' = [open EXCEPT ![ws] = alive]
    /\ pc' = [pc EXCEPT ![ws] = "joined"]
    /\ UNCHANGED <<stateVars, bq, bmsg, cont, inbox, nmsgs, joined, last, gatherVars>>

\* Same turn, next statements: user_id, set_user, get_xml and the send of
\* init, which raises on a dead transport (outside the try block).
Register(ws) ==
    /\ pc[ws] = "joined"
    /\ LET us == set_user(users, uuid4(ws))
       IN  /\ users' = us
           /\ SetHandler(ws,
                  Handler(IF open[ws] THEN "init_sent" ELSE "crashed", <<>>, NoMsg,
                          "none",
                          send_text(inbox, open, ws,
                                    InitMsg(get_xml(xml), uuid4(ws), us, locks))))
    /\ UNCHANGED <<xml, locks, active_connections, open, nmsgs, joined, last,
                   gatherVars>>

JoinBroadcast(ws) ==
    /\ Quiet
    /\ pc[ws] = "init_sent"
    /\ SetHandler(ws, broadcast(UserJoin(uuid4(ws)), "recv",
                                active_connections, locks, inbox, open))
    /\ UNCHANGED <<stateVars, active_connections, open, nmsgs, joined, last, gatherVars>>

BroadcastSend(ws) ==
    /\ Quiet
    /\ pc[ws] = "bcast"
    /\ bq[ws] # <<>>
    /\ LET d == deliver(bq[ws], bmsg[ws], inbox, open)
       IN  /\ inbox' = d.inbox
           /\ bq' = [bq EXCEPT ![ws] = d.rest]
    /\ UNCHANGED <<stateVars, active_connections, pc, bmsg, cont, open,
                   nmsgs, joined, last, gatherVars>>

BroadcastReturn(ws) ==
    /\ Quiet
    /\ pc[ws] = "bcast"
    /\ bq[ws] = <<>>
    /\ SetHandler(ws, after_broadcast(cont[ws], active_connections, locks,
                                      inbox, open))
    /\ UNCHANGED <<stateVars, active_connections, open, nmsgs, joined, last, gatherVars>>

\* text = await ws.receive_text() returns m.  closes: the client goes away
\* right after sending m, so that the private answer finds the transport
\* down (a broadcast send takes a dead transport in its stride, as after
\* Drop).  exc: what a send on a dead transport raises.
Receive(ws, m, closes, exc) ==
    /\ Quiet
    /\ pc[ws] = "recv"
    /\ open[ws]
    /\ nmsgs < MaxMsgs
    /\ closes => (m.type = "acquire_lock" /\ Down < MaxDown)
    /\ nmsgs' = nmsgs + 1
    /\ LET op == [open EXCEPT ![ws] = ~closes]
           d == dispatch(ws, m, xml, locks, active_connections, inbox, op)
       IN  CASE d.raise = "none" ->
                   /\ xml' = d.xml
                   /\ locks' = d.locks
                   /\ open' = op
                   /\ SetHandler(ws, d.h)
                   /\ UNCHANGED <<users, active_connections>>
             [] d.raise = "KeyError" -> Crash(ws, d.locks)
             [] d.raise = "send" ->
                   IF exc = "WebSocketDisconnect"
                   THEN Cascade(ws, d.locks)
                   ELSE Crash(ws, d.locks)
    /\ UNCHANGED <<joined, last, gatherVars>>

Answered(ws) ==
    /\ Quiet
    /\ pc[ws] = "answered"
    /\ SetHandler(ws, broadcast(LocksUpdate(locks), "recv",
                                active_connections, locks, inbox, open))
    /\ UNCHANGED <<stateVars, active_connections, open, nmsgs, joined, last, gatherVars>>

\* ws.receive_text() raises WebSocketDisconnect.
Disconnect(ws) ==
    /\ Quiet
    /\ pc[ws] = "recv"
    /\ ~open[ws]
    /\ Cascade(ws, locks)
    /\ UNCHANGED <<nmsgs, joined, last, gatherVars>>

\* The client, or the network, takes the transport down.
Drop(ws) ==
    /\ Quiet
    /\ open[ws]
    /\ Down < MaxDown
    /\ open' = [open EXCEPT ![ws] = FALSE]
    /\ UNCHANGED <<stateVars, active_connections, pc, bq, bmsg, cont, inbox,
                   nmsgs, joined, last, gatherVars>>

Exceptions == {"WebSocketDisconnect", "RuntimeError"}

Init == InitApi

Next ==
    \/ \E ws \in Conns, alive \in BOOLEAN : Connect(ws, alive)
    \/ \E ws \in Conns : Register(ws)
    \/ \E ws \in Conns : JoinBroadcast(ws)
    \/ \E ws \in Conns : BroadcastSend(ws)
    \/ \E ws \in Conns : BroadcastReturn(ws)
    \/ \E ws \in Conns, closes \in BOOLEAN, exc \in Exceptions :
          \E m \in ClientMsgs(ws) : Receive(ws, m, closes, exc)
    \/ \E ws \in Conns : Answered(ws)
    \/ \E ws \in Conns : Disconnect(ws)
    \/ \E ws \in Conns : Drop(ws)

Spec == Init /\ [][Next]_vars

NextMalformed ==
    \/ \E ws \in Conns, alive \in BOOLEAN : Connect(ws, alive)
    \/ \E ws \in Conns : Register(ws)
    \/ \E ws \in Conns : JoinBroadcast(ws)
    \/ \E ws \in Conns : BroadcastSend(ws)
    \/ \E ws \in Conns : BroadcastReturn(ws)
    \/ \E ws \in Conns, closes \in BOOLEAN, exc \in Exceptions :
          \E m \in MalformedMsgs(ws) : Receive(ws, m, closes, exc)
    \/ \E ws \in Conns : Answered(ws)
    \/ \E ws \in Conns : Disconnect(ws)
    \/ \E ws \in Conns : Drop(ws)

SpecMalformed == Init /\ [][NextMalformed]_vars

\* ------------------------------------------- direct calls on the manager
\* The unit-test view of ConnectionManager: channels join, leave and break
\* while one caller, whose position is kept in slot Caller, runs broadcast.
\* A slot of Chans whose channel broke before anything reached it may be
\* taken by a new websocket object, though not while a broadcast that copied
\* the old one is running.

Caller == 1

Range(q) == {q[i] : i \in 1..Len(q)}

HubIdle == pc[Caller] = "new"

HubConnect(c) ==
    /\ c \notin Range(active_connections)
    /\ ~open[c] /\ inbox[c] = <<>>
    /\ HubIdle \/ c \notin Range(joined)
    /\ active_connections' = connect(active_connections, c)
    /\ open' = [open EXCEPT ![c] = TRUE]
    /\ UNCHANGED <<stateVars, pc, bq, bmsg, cont, inbox, nmsgs, joined, last,
                   gatherVars>>

HubDisconnect(c) ==
    /\ active_connections' = disconnect(active_connections, c)
    /\ UNCHANGED <<stateVars, pc, bq, bmsg, cont, inbox, open, nmsgs, joined,
                   last, gatherVars>>

HubBreak(c) ==
    /\ open[c]
    /\ open' = [open EXCEPT ![c] = FALSE]
    /\ UNCHANGED <<stateVars, active_connections, pc, bq, bmsg, cont, inbox,
                   nmsgs, joined, last, gatherVars>>

\* await manager.broadcast(message), the n-th call carrying UserJoin(n).
HubBroadcast ==
    /\ HubIdle
    /\ nmsgs < MaxCalls
    /\ nmsgs' = nmsgs + 1
    /\ joined' = active_connections
    /\ SetHandler(Caller, broadcast(UserJoin(nmsgs + 1), "returned",
                                    active_connections, locks, inbox, open))
    /\ UNCHANGED <<stateVars, active_connections, open, last, gatherVars>>

HubSend == BroadcastSend(Caller)

HubReturn == BroadcastReturn(Caller)

HubNextCall ==
    /\ pc[Caller] = "returned"
    /\ pc' = [pc EXCEPT ![Caller] = "new"]
    /\ UNCHANGED <<stateVars, active_connections, bq, bmsg, cont, inbox, open,
                   nmsgs, joined, last, gatherVars>>

NextHub ==
    \/ \E c \in Chans : HubConnect(c)
    \/ \E c \in Chans : HubDisconnect(c)
    \/ \E c \in Chans : HubBreak(c)
    \/ HubBroadcast
    \/ HubSend
    \/ HubReturn
    \/ HubNextCall

SpecHub == Init /\ [][NextHub]_vars

\* ====================================================== lock table claims
IsCall(op) == last'.op = op

Held(e, u) == e \in DOMAIN locks /\ locks[e] = u

\* C1: mutual exclusion.  While element e has an owner, every acquire_lock
\* on e returns false and leaves the lock table as it is, and e keeps that
\* owner until release_lock(e, owner) or remove_user(owner) is the call made:
\* so of the acquires between two such calls at most one returns true.
C1_MutualExclusion ==
    [][\A e \in DOMAIN locks :
          /\ (IsCall("acquire_lock") /\ last'.element_id = e)
                => (~last'.ok /\ locks' = locks)
          /\ (e \notin DOMAIN locks' \/ locks'[e] # locks[e])
                => \/ /\ IsCall("release_lock")
                      /\ last'.element_id = e
                      /\ last'.user_id = locks[e]
                   \/ /\ IsCall("remove_user")
                      /\ last'.user_id = locks[e]]_vars

C1_Witness ==
    /\ last.op = "acquire_lock"
    /\ ~last.ok
    /\ last.element_id \in DOMAIN locks
    /\ locks[last.element_id] # last.user_id

\* C2: when the NumTasks concurrent acquire_lock calls on the same unlocked
\* element have all returned, exactly one of them returned true and the
\* lock table records that caller as the owner; at no time have two
\* returned true.
C2_ExactlyOneWinner ==
    LET winners == {t \in Tasks : tpc[t] \in {"exit", "done"} /\ tres[t]}
        losers == {t \in Tasks : tpc[t] \in {"exit", "done"} /\ ~tres[t]}
    IN  /\ Cardinality(winners) <= 1
        /\ (\A t \in Tasks : tpc[t] = "done")
              => /\ Cardinality(winners) = 1
                 /\ Cardinality(losers) = NumTasks - 1
                 /\ \A t \in winners : Held(GatherElement, t)

C2_Witness ==
    /\ \A t \in Tasks : tpc[t] = "done"
    /\ \E t \in Tasks : tres[t] /\ t # 1

\* C3 (as claimed): acquire_lock("canvas", s) returns false and leaves the
\* lock table unchanged, whatever the session and the lock table.
C3_CanvasAlwaysFails ==
    [][(IsCall("acquire_lock") /\ last'.element_id = Canvas)
          => (~last'.ok /\ locks' = locks)]_vars

\* C3 (amended): acquire_lock treats "canvas" as any other element id: it
\* returns false without mutation exactly when "canvas" already has an
\* entry, and otherwise returns true and records the caller as its owner.
C3_CanvasLikeAnyElement ==
    [][(IsCall("acquire_lock") /\ last'.element_id = Canvas)
          => IF Canvas \in DOMAIN locks
             THEN ~last'.ok /\ locks' = locks
             ELSE /\ last'.ok
                  /\ locks' = DictPut(locks, Canvas, last'.user_id)]_vars

C3_Witness ==
    /\ last.op = "acquire_lock"
    /\ last.element_id = Canvas
    /\ last.ok
    /\ Held(Canvas, last.user_id)

\* C5: release_lock(e, s) returns true exactly when e is locked and owned by
\* s, and then removes that one lock; otherwise it returns false and the
\* lock table is unchanged.
C5_ReleaseIffOwner ==
    [][IsCall("release_lock")
          => LET e == last'.element_id
                 s == last'.user_id
             IN  /\ last'.ok <=> Held(e, s)
                 /\ Held(e, s) => locks' = DictDel(locks, {e})
                 /\ ~Held(e, s) => locks' = locks]_vars

C5_Witness ==
    /\ last.op = "release_lock"
    /\ ~last.ok
    /\ last.element_id \in DOMAIN locks
    /\ locks[last.element_id] # last.user_id

\* C6: remove_user(s) removes exactly the locks owned by s, every other lock
\* keeps its owner, and calling remove_user(s) again on the result changes
\* neither the lock table nor the registry.
C6_RemoveExactlyOwned ==
    [][IsCall("remove_user")
          => LET s == last'.user_id
             IN  /\ DOMAIN locks' = {e \in DOMAIN locks : locks[e] # s}
                 /\ \A e \in DOMAIN locks' : locks'[e] = locks[e]
                 /\ remove_user_locks(locks', s) = locks'
                 /\ remove_user_users(users', s) = users']_vars

C6_Witness ==
    /\ last.op = "remove_user"
    /\ locks # EmptyDict
    /\ \A e \in DOMAIN locks : locks[e] # last.user_id

\* C7 (as claimed): when s already owns the lock on e, acquire_lock(e, s)
\* returns true and leaves the lock table unchanged.
C7_ReacquireSucceeds ==
    [][(IsCall("acquire_lock") /\ Held(last'.element_id, last'.user_id))
          => (last'.ok /\ locks' = locks)]_vars

\* C7 (amended): when s already owns the lock on e, acquire_lock(e, s)
\* returns false, as for any other caller, and leaves the lock table
\* unchanged: s is still the owner.
C7_ReacquireDenied ==
    [][(IsCall("acquire_lock") /\ Held(last'.element_id, last'.user_id))
          => (~last'.ok /\ locks' = locks)]_vars

C7_Witness ==
    /\ last.op = "acquire_lock"
    /\ ~last.ok
    /\ Held(last.element_id, last.user_id)

\* ======================================================== protocol claims
InAc(ws) == ws \in Range(active_connections)

Delivered(c) == Range(inbox[c])

Snapshots ==
    {m.locks : m \in {x \in UNION {Delivered(c) : c \in Conns}
                              \cup {bmsg[c] : c \in Conns} :
                        x.type \in {"init", "locks_update"}}}

\* C4: whatever the connections send, the lock table never has the key
\* "canvas", nor has any lock snapshot sent in an init or a locks_update,
\* and the only answer a client gets to an acquire_lock on "canvas" is
\* lock_denied.
C4_CanvasNeverLocked ==
    /\ Canvas \notin DOMAIN locks
    /\ \A lk \in Snapshots : Canvas \notin DOMAIN lk
    /\ \A c \in Conns : \A m \in Delivered(c) :
          (m.element_id = Canvas /\ m.type \in {"lock_acquired", "lock_denied"})
             => m.type = "lock_denied"

C4_Witness ==
    \E c \in Conns : \E i, j \in 1..Len(inbox[c]) :
        /\ i < j
        /\ inbox[c][i] = LockReply("lock_denied", Canvas, uuid4(c))
        /\ inbox[c][j].type = "locks_update"

\* C8: the disconnect cascade of a connection removes every lock its session
\* owns, so that acquire_lock on each of them by any other session would
\* succeed; an element comes back into the lock table only when a message
\* is received, and an acquire_lock received for a free element is granted:
\* the declared session becomes the owner and the requester is told
\* lock_acquired.  A handler that has returned is out of the hub and the
\* registry.
C8_DisconnectReleases ==
    [][\A ws \in Conns :
          /\ (InAc(ws) /\ ~InAc(ws)')
                => \A e \in DOMAIN locks :
                      locks[e] = uuid4(ws)
                         => /\ e \notin DOMAIN locks'
                            /\ \A s \in UserIds \ {uuid4(ws)} :
                                  acquire_lock(locks', e, s).ok
          /\ pc'[ws] = "closed" => (~InAc(ws)' /\ uuid4(ws) \notin DOMAIN users')
          /\ (DOMAIN locks' \ DOMAIN locks # {}) => nmsgs' = nmsgs + 1
          /\ \A m \in ClientMsgs(ws) :
                (/\ m.type = "acquire_lock"
                 /\ m.element_id \notin DOMAIN locks \cup {Canvas}
                 /\ Receive(ws, m, FALSE, "RuntimeError"))
                   => /\ Held(m.element_id, m.user_id)'
                      /\ inbox'[ws] = Append(inbox[ws],
                            LockReply("lock_acquired", m.element_id, m.user_id))]_vars

C8_Witness ==
    \E a, b \in Conns :
        /\ a # b
        /\ pc[a] = "closed"
        /\ LockReply("lock_acquired", "Task_1", uuid4(a)) \in Delivered(a)
        /\ LockReply("lock_acquired", "Task_1", uuid4(b)) \in Delivered(b)
        /\ Held("Task_1", uuid4(b))

\* C9: a broadcast sends to every channel that was joined when it was
\* called: each such channel whose turn has come and whose transport is up
\* has received the message exactly once, whichever of the others failed,
\* and the call comes back to its caller.
Count(q, m) == Cardinality({i \in 1..Len(q) : q[i] = m})

C9_BroadcastReachesAll ==
    /\ pc[Caller] \in {"new", "bcast", "returned"}
    /\ pc[Caller] \in {"bcast", "returned"}
          => \A i \in 1..(Len(joined) - Len(bq[Caller])) :
                open[joined[i]] => Count(inbox[joined[i]], UserJoin(nmsgs)) = 1

C9_Witness ==
    /\ pc[Caller] = "returned"
    /\ Len(joined) = 3
    /\ Count(inbox[joined[1]], UserJoin(nmsgs)) = 0
    /\ Count(inbox[joined[2]], UserJoin(nmsgs)) = 1
    /\ Count(inbox[joined[3]], UserJoin(nmsgs)) = 1

\* C10: a message of unknown type, or an acquire_lock or release_lock with
\* element_id or user_id absent, leaves document, lock table, registry and
\* connection set as they are and its connection in the receive loop, where
\* the next message is taken.
Malformed(m) ==
    \/ m.type \notin {"update_xml", "acquire_lock", "release_lock"}
    \/ /\ m.type \in {"acquire_lock", "release_lock"}
       /\ (m.element_id = NoElement \/ m.user_id = None)

C10_MalformedIgnored ==
    [][\A ws \in Conns : \A m \in MalformedMsgs(ws) :
          (Malformed(m) /\ Receive(ws, m, FALSE, "RuntimeError"))
             => /\ UNCHANGED <<xml, users, locks, active_connections>>
                /\ pc'[ws] \in {"recv", "answered", "bcast"}
                /\ open'[ws]]_vars

----------------------------------------------------------------------------
\* C11: get_xml returns exactly the payload of the most recent set_xml, in
\* any order of calls: a set_xml(p) leaves the document equal to p, no other
\* call changes the document, and get_xml returns the document as it is.
C11_LastWriteReadBack ==
    [][ /\ IsCall("set_xml") => xml' = last'.xml
        /\ ~IsCall("set_xml") => xml' = xml
        /\ IsCall("get_xml") => last'.xml = xml /\ last'.xml \in Xmls ]_vars

\* A read after a write of something that is not the initial document.
C11_Witness == last.op = "get_xml" /\ last.xml = "xml_b" /\ xml = "xml_b"

----------------------------------------------------------------------------
\* The protocol claims below read a step of a handler off the variables: the
\* action itself, used as a predicate on the step, names the message.

AcquireMsgs(ws) == {m \in ClientMsgs(ws) : m.type = "acquire_lock"}

ReleaseMsgs(ws) == {m \in ClientMsgs(ws) : m.type = "release_lock"}

IsLockReply(m) == m.type \in {"lock_acquired", "lock_denied"}

Positions(c, T) == {i \in 1..Len(inbox[c]) : inbox[c][i].type \in T}

\* C12: every acquire_lock message of a connected requester is answered by
\* exactly one lock_acquired or lock_denied, appended to the requester's
\* channel alone, lock_acquired iff the lock table took the lock (never for
\* canvas); the handler's next step broadcasts locks_update with the whole
\* table over all connections; lock replies arise in no other way, and a
\* requester back in its receive loop has a locks_update after each answer.
C12_AcquireAnswered ==
    /\ [](\A c \in Conns :
            (pc[c] = "recv" /\ open[c]) =>
                \A i \in Positions(c, {"lock_acquired", "lock_denied"}) :
                    \E j \in Positions(c, {"locks_update"}) : j > i)
    /\ [][\A ws \in Conns :
            /\ \A m \in AcquireMsgs(ws) :
                  Receive(ws, m, FALSE, "RuntimeError") =>
                      LET ok == /\ m.element_id # Canvas
                                /\ m.element_id \notin DOMAIN locks
                          reply == LockReply(IF ok THEN "lock_acquired"
                                                   ELSE "lock_denied",
                                             m.element_id, m.user_id)
                      IN  /\ inbox' = [inbox EXCEPT ![ws] = Append(@, reply)]
                          /\ pc'[ws] = "answered"
                          /\ locks' = IF ok
                                      THEN DictPut(locks, m.element_id, m.user_id)
                                      ELSE locks
            /\ (pc[ws] = "answered" /\ pc'[ws] # "answered") =>
                  /\ locks' = locks
                  /\ pc'[ws] = "bcast"
                  /\ bmsg'[ws] = LocksUpdate(locks)
                  /\ cont'[ws] = "recv"
                  /\ bq'[ws] = Tail(active_connections)
                  /\ inbox' = send_text(inbox, open, Head(active_connections),
                                        LocksUpdate(locks))
            /\ Cardinality(Positions(ws, {"lock_acquired", "lock_denied"}))' >
               Cardinality(Positions(ws, {"lock_acquired", "lock_denied"})) =>
                  /\ pc[ws] = "recv" /\ pc'[ws] = "answered"
                  /\ Len(inbox'[ws]) = Len(inbox[ws]) + 1
                  /\ IsLockReply(inbox'[ws][Len(inbox'[ws])])
         ]_vars

\* A requester was denied Task_1, which the other session holds, and has
\* received its answer and then the snapshot showing the holder.
C12_Witness ==
    \E a \in Conns, i, j \in 1..(3 * MaxMsgs + 4) :
        /\ pc[a] = "recv"
        /\ i < j /\ j <= Len(inbox[a])
        /\ inbox[a][i] = LockReply("lock_denied", "Task_1", uuid4(a))
        /\ inbox[a][j].type = "locks_update"
        /\ "Task_1" \in DOMAIN inbox[a][j].locks
        /\ inbox[a][j].locks["Task_1"] # uuid4(a)

\* The handler ws takes a step.
Steps(ws) == <<pc[ws], bq[ws], bmsg[ws], cont[ws]>>' # <<pc[ws], bq[ws], bmsg[ws], cont[ws]>>

NoBroadcastRunning == \A ws \in Conns : pc[ws] # "bcast"

\* C13: a release_lock for canvas broadcasts lock_release_failed, leaves the
\* lock table as it is and is followed by no locks_update; any other
\* release_lock removes the entry iff the declared user holds it, broadcasts
\* lock_released in that case and lock_release_failed otherwise, and a
\* locks_update with the table follows the broadcast iff the release
\* succeeded.
C13_ReleaseAnnounced ==
    /\ []((NoBroadcastRunning /\ Quiet) =>
            \A c \in Conns :
                open[c] => \A i \in Positions(c, {"lock_released"}) :
                               \E j \in Positions(c, {"locks_update"}) : j > i)
    /\ [][\A ws \in Conns :
            /\ \A m \in ReleaseMsgs(ws) :
                  Receive(ws, m, FALSE, "RuntimeError") =>
                      LET ok == /\ m.element_id # Canvas
                                /\ Held(m.element_id, m.user_id)
                          note == LockReply(IF ok THEN "lock_released"
                                                  ELSE "lock_release_failed",
                                            m.element_id, m.user_id)
                      IN  /\ locks' = IF ok THEN DictDel(locks, {m.element_id})
                                            ELSE locks
                          /\ pc'[ws] = "bcast"
                          /\ bmsg'[ws] = note
                          /\ bq'[ws] = Tail(active_connections)
                          /\ inbox' = send_text(inbox, open,
                                                Head(active_connections), note)
                          /\ cont'[ws] = IF ok THEN "locks_recv" ELSE "recv"
            /\ (pc[ws] = "bcast" /\ bq[ws] = <<>> /\ Steps(ws)) =>
                  /\ cont[ws] = "locks_recv" =>
                        /\ pc'[ws] = "bcast"
                        /\ bmsg'[ws] = LocksUpdate(locks)
                        /\ cont'[ws] = "recv"
                        /\ bq'[ws] = Tail(active_connections)
                        /\ inbox' = send_text(inbox, open,
                                              Head(active_connections),
                                              LocksUpdate(locks))
                  /\ cont[ws] = "recv" => pc'[ws] = "recv" /\ inbox' = inbox
         ]_vars

\* A channel carries lock_released for Task_1 and, later, the snapshot
\* without it.
C13_Witness ==
    \E c \in Conns, i, j \in 1..(3 * MaxMsgs + 4) :
        /\ i < j /\ j <= Len(inbox[c])
        /\ inbox[c][i].type = "lock_released"
        /\ inbox[c][i].element_id = "Task_1"
        /\ inbox[c][j] = LocksUpdate(EmptyDict)

\* The handler ws runs its except clause in this step.
Leaves(ws) == InAc(ws) /\ ~InAc(ws)'

\* The handler ws is in, or past, its except clause.
InLeave(ws) ==
    \/ pc[ws] = "closed"
    \/ pc[ws] = "bcast" /\ cont[ws] \in {"locks_closed", "closed"}

\* The client c has been told of the session of ws.
Knows(c, ws) ==
    \E i \in 1..Len(inbox[c]) :
        \/ inbox[c][i].type = "init" /\ uuid4(ws) \in inbox[c][i].users
        \/ inbox[c][i] = UserJoin(uuid4(ws))

\* C14: on WebSocketDisconnect the handler, in one turn, leaves the hub,
\* unregisters its session, drops the locks that session owns and starts the
\* broadcast of user_leave; when that broadcast returns it broadcasts
\* locks_update with the table as it then is, whether or not a lock was
\* dropped.  The departing channel gets neither message, and a remaining
\* connection gets user_leave before that locks_update.
C14_LeaveCascade ==
    /\ [](\A ws, c \in Conns :
            /\ InLeave(ws) => UserLeave(uuid4(ws)) \notin Delivered(ws)
            /\ (pc[ws] = "closed" /\ open[c] /\ Knows(c, ws)) =>
                  \E i \in Positions(c, {"user_leave"}),
                     j \in Positions(c, {"locks_update"}) :
                      inbox[c][i] = UserLeave(uuid4(ws)) /\ i < j)
    /\ [][\A ws \in Conns :
            /\ Leaves(ws) =>
                  LET ac == disconnect(active_connections, ws)
                      note == UserLeave(uuid4(ws))
                  IN  /\ active_connections' = ac
                      /\ DOMAIN users' = DOMAIN users \ {uuid4(ws)}
                      /\ \A e \in DOMAIN locks' : locks'[e] # uuid4(ws)
                      /\ \A e \in DOMAIN locks :
                            locks[e] # uuid4(ws) =>
                                e \in DOMAIN locks' /\ locks'[e] = locks[e]
                      /\ IF ac = <<>>
                         THEN pc'[ws] = "closed" /\ inbox' = inbox
                         ELSE /\ pc'[ws] = "bcast"
                              /\ bmsg'[ws] = note
                              /\ cont'[ws] = "locks_closed"
                              /\ bq'[ws] = Tail(ac)
                              /\ inbox' = send_text(inbox, open', Head(ac), note)
            /\ (pc[ws] = "bcast" /\ cont[ws] = "locks_closed"
                    /\ bq[ws] = <<>> /\ Steps(ws)) =>
                  IF active_connections = <<>>
                  THEN pc'[ws] = "closed" /\ inbox' = inbox
                  ELSE /\ pc'[ws] = "bcast"
                       /\ bmsg'[ws] = LocksUpdate(locks)
                       /\ cont'[ws] = "closed"
                       /\ bq'[ws] = Tail(active_connections)
                       /\ inbox' = send_text(inbox, open,
                                             Head(active_connections),
                                             LocksUpdate(locks))
            /\ (InLeave(ws) \/ Leaves(ws)) => inbox'[ws] = inbox[ws]
            /\ \A c \in Conns :
                  (pc'[ws] = "bcast" /\ cont'[ws] = "closed" /\ Steps(ws)
                        /\ inbox'[c] # inbox[c] /\ Knows(c, ws)) =>
                      UserLeave(uuid4(ws)) \in Delivered(c)
         ]_vars

\* A session that held Task_1 has left: the other client saw the lock, then
\* user_leave, then the empty snapshot.
C14_Witness ==
    \E a, b \in Conns, k, i, j \in 1..(3 * MaxMsgs + 4) :
        /\ pc[a] = "closed" /\ a # b
        /\ k < i /\ i < j /\ j <= Len(inbox[b])
        /\ inbox[b][k] = LocksUpdate(DictPut(EmptyDict, "Task_1", uuid4(a)))
        /\ inbox[b][i] = UserLeave(uuid4(a))
        /\ inbox[b][j] = LocksUpdate(EmptyDict)

\* C15 as stated: a connection is never a member of the broadcast set before
\* its session is registered (the session is registered first, the hub
\* joined second).
C15_RegisteredBeforeJoined ==
    \A ws \in Conns : InAc(ws) => uuid4(ws) \in DOMAIN users

\* C15, amended: on accept the handler joins the hub first (the websocket is
\* appended to active_connections while its session is not yet registered),
\* then, in the same turn, registers the session and sends init to the new
\* connection alone, and in its next turn broadcasts user_join over all
\* connections, the new one included.  Between turns every member of the
\* broadcast set has its session registered; init is the first message on
\* the new channel, the only init on it, and lists the new session.
C15_JoinThenRegister ==
    /\ [](\A ws \in Conns :
            /\ Quiet => (InAc(ws) => uuid4(ws) \in DOMAIN users)
            /\ pc[ws] = "joined" => InAc(ws) /\ uuid4(ws) \notin DOMAIN users
            /\ inbox[ws] # <<>> =>
                  /\ inbox[ws][1].type = "init"
                  /\ inbox[ws][1].user_id = uuid4(ws)
                  /\ uuid4(ws) \in inbox[ws][1].users
            /\ Positions(ws, {"init"}) \subseteq {1}
            /\ (pc[ws] = "recv" /\ open[ws]) =>
                  UserJoin(uuid4(ws)) \in Delivered(ws))
    /\ [][\A ws \in Conns :
            /\ (pc[ws] = "new" /\ Steps(ws)) =>
                  /\ pc'[ws] = "joined"
                  /\ active_connections' = Append(active_connections, ws)
                  /\ users' = users
                  /\ inbox' = inbox
            /\ (pc[ws] = "joined" /\ Steps(ws)) =>
                  /\ pc'[ws] = IF open[ws] THEN "init_sent" ELSE "crashed"
                  /\ active_connections' = active_connections
                  /\ DOMAIN users' = DOMAIN users \cup {uuid4(ws)}
                  /\ inbox' = send_text(inbox, open, ws,
                                        InitMsg(xml, uuid4(ws), users', locks))
            /\ (pc[ws] = "init_sent" /\ Steps(ws)) =>
                  /\ InAc(ws)
                  /\ pc'[ws] = "bcast"
                  /\ bmsg'[ws] = UserJoin(uuid4(ws))
                  /\ cont'[ws] = "recv"
                  /\ bq'[ws] = Tail(active_connections)
                  /\ inbox' = send_text(inbox, open, Head(active_connections),
                                        UserJoin(uuid4(ws)))
         ]_vars

\* The second client to connect is in its receive loop: its init came first
\* and lists both sessions, and its own user_join reached it.
C15_Witness ==
    \E a \in Conns :
        /\ pc[a] = "recv" /\ open[a]
        /\ inbox[a][1].type = "init"
        /\ inbox[a][1].users = UserIds
        /\ UserJoin(uuid4(a)) \in Delivered(a)

\* Every handler is suspended in receive_text with its transport up, has not
\* started, or has ended through its except clause: nothing is left to run.
AllIdle ==
    \A ws \in Conns :
        \/ pc[ws] \in {"new", "closed"}
        \/ pc[ws] = "recv" /\ open[ws]

Connected(c) == pc[c] = "recv" /\ open[c]

Last(S) == CHOOSE i \in S : \A j \in S : j <= i

\* The lock snapshot most recently delivered to c: its init or its last
\* locks_update.
LastSnapshot(c) == inbox[c][Last(Positions(c, {"init", "locks_update"}))].locks

\* C16: once every handler is idle, the lock snapshot most recently
\* delivered to each connected client equals the current lock table.
C16_LockViewConverges ==
    AllIdle => \A c \in Conns : Connected(c) => LastSnapshot(c) = locks

\* C17: once every handler is idle, the payload of the last xml_update
\* delivered to each connected client equals the stored document.
C17_DocumentConverges ==
    AllIdle =>
        \A c \in Conns :
            (Connected(c) /\ Positions(c, {"xml_update"}) # {}) =>
                inbox[c][Last(Positions(c, {"xml_update"}))].xml = get_xml(xml)

\* C18: the owner recorded for each lock is the id of a session that is in
\* the registry, whatever user_id the acquire_lock message carried.
C18_OwnersRegistered ==
    \A e \in DOMAIN locks : locks[e] \in DOMAIN users

\* The handler of ws has terminated.
Terminated(ws) == pc[ws] \in {"closed", "crashed"}

\* C19: when a handler has terminated, for whatever reason, its connection
\* is out of the hub's connection set, its session is out of the registry
\* and no lock is owned by its session.
C19_TerminationCleansUp ==
    \A ws \in Conns :
        Terminated(ws) =>
            /\ ~InAc(ws)
            /\ uuid4(ws) \notin DOMAIN users
            /\ \A e \in DOMAIN locks : locks[e] # uuid4(ws)

\* In this step the broadcast of handler ws attempts the delivery on channel
\* c, whose transport is down: a later turn of the loop, or the first turn
\* of a broadcast that starts in this step.
FailedSend(ws, c) ==
    \/ /\ pc[ws] = "bcast" /\ bq[ws] # <<>> /\ Head(bq[ws]) = c
       /\ bq'[ws] = Tail(bq[ws])
       /\ ~open[c]
    \/ /\ ~(pc[ws] = "bcast" /\ bq[ws] # <<>>)
       /\ Steps(ws) /\ pc'[ws] = "bcast"
       /\ active_connections' # <<>> /\ Head(active_connections') = c
       /\ ~open'[c]

\* C20: a channel on which a broadcast delivery fails is removed from the
\* connection set, by that delivery attempt or by the teardown of its own
\* handler: after the failed attempt the channel is out of the set, or its
\* handler has not terminated and its teardown is still to come.  (Once the
\* handler has terminated nothing else removes the channel.)
C20_FailedChannelRemoved ==
    [][\A ws, c \in Conns :
          FailedSend(ws, c) => (~InAc(c)' \/ ~Terminated(c)')]_vars

====
